---- MODULE Spec2Model ----
(***************************************************************************)
(* TeacherAudioMixer (utils/AudioMixer.js): the Web Audio routing graph    *)
(* that mixes a teacher microphone stream with a music track.              *)
(*                                                                         *)
(* Gain values are fixed-point numbers in tenths: One stands for 1.0.      *)
(* Music sources are named by the number of the loadMusic call that        *)
(* created them, teacher sources by the number of the setTeacherStream     *)
(* call that created them; 0 stands for null.                              *)
(*                                                                         *)
(* MusicPlayer (components/MusicPlayer.js): the React component with its   *)
(* own audio graph, the <audio> element it plays, the candidate-file       *)
(* loader and the streaming toggle. A behaviour is about one of the two:   *)
(* a constructed TeacherAudioMixer with no MusicPlayer mounted, or a       *)
(* mounted MusicPlayer with no TeacherAudioMixer.                          *)
(***************************************************************************)
EXTENDS Integers, Sequences, FiniteSets

\* ---- bounds of the model ----
MaxLoads == 2          \* loadMusic calls in one behaviour
MaxTeacherSources == 2 \* successful setTeacherStream calls in one behaviour
Overshoot == 2         \* how far (in tenths) a volume input may lie outside [0, 1]
MaxDisconnects == 2    \* disconnect() calls made in a row
MaxPendingPlay == 2    \* audio.play() promises unsettled at one time

\* ---- program constants ----
One == 10                  \* 1.0, the upper clamp limit
DefaultTeacherVolume == 10 \* 1.0
DefaultMusicVolume == 3    \* 0.3
StreamDestinationNode == 1 \* the node createMediaStreamDestination() returns
InitialPlayerVolume == 5   \* useState(0.5)
AudioFilesLength == 4      \* audioFiles.length

\* ---- JavaScript values ----
Undefined == [kind |-> "undefined", v |-> 0]
NaN == [kind |-> "nan", v |-> 0]
Num(n) == [kind |-> "num", v |-> n]

\* volumes below the range, at its ends, inside it and above it
Volumes == {0 - Overshoot, 0, DefaultMusicVolume, One, One + Overshoot}
Numbers == {Num(n) : n \in Volumes}
\* what a caller may pass as a volume: a number or NaN
VolumeArgs == Numbers \cup {NaN}
\* what a config field may hold when the constructor completes
ConfigValues == Numbers \cup {Undefined}

\* Math.min / Math.max: NaN if either argument is NaN
MathMinMutant(a, b) == IF a.kind = "nan" \/ b.kind = "nan" THEN NaN
                       ELSE IF a.v > b.v THEN a ELSE b
MathMin(a, b) == IF a.kind = "nan" \/ b.kind = "nan" THEN NaN
                 ELSE IF a.v < b.v THEN a ELSE b
MathMax(a, b) == IF a.kind = "nan" \/ b.kind = "nan" THEN NaN
                 ELSE IF a.v > b.v THEN a ELSE b

\* Math.max(0, Math.min(1, value))
Clamp(value) == MathMax(Num(0), MathMin(Num(One), value))

\* every volume in tenths from Overshoot below the range to Overshoot above it
AllVolumes == (0 - Overshoot) .. (One + Overshoot)
AllNumbers == {Num(n) : n \in AllVolumes}

\* config.x !== undefined ? config.x : dflt
InitialVolume(cfg, dflt) == IF cfg # Undefined THEN cfg.v ELSE dflt

VARIABLES
    ctxState,          \* audioContext.state: "suspended" or "running"
    resumePending,     \* audioContext.resume() was called and has not settled
    teacherGainValue,  \* teacherGain.gain.value, in tenths
    musicGainValue,    \* musicGain.gain.value, in tenths
    teacherGainOut,    \* nodes teacherGain is connected to
    musicGainOut,      \* nodes musicGain is connected to
    masterGainOut,     \* nodes masterGain is connected to
    streamDestination, \* the node this.streamDestination refers to
    loadCalls,         \* number of loadMusic calls made so far
    loading,           \* the loadMusic calls still awaiting 'loadeddata' or 'error'
    musicSource,       \* this.musicSource: the load that made it, 0 = null
    musicGainIn,       \* media element sources connected to musicGain
    audioPlaying,      \* loads whose Audio element is playing (not paused)
    isPlaying,         \* this.isPlaying
    teacherSource,     \* this.teacherSource: the number of sources created, 0 = null
    teacherGainIn,     \* stream sources connected to teacherGain
    result,            \* how the most recent call or callback ended: "ok", "set" (a
                       \* gain value was written), an error name, or what the
                       \* loadMusic promise resolved to ("true", "false")
    returnedStream,    \* the stream the most recent call returned, 0 = none
    disconnectCalls,   \* number of disconnect() calls made in a row, most recently
    \* ---- MusicPlayer ----
    mounted,           \* the component is mounted
    audioInit,         \* the Web Audio effect: "none", "ok" or "failed" (it threw)
    playerCtx,         \* audioContextRef.current.state: "none" (no context),
                       \* "suspended", "resuming" (resume() called) or "running"
    audioGainOut,      \* nodes audioGain is connected to
    micGainOut,        \* nodes micGain is connected to
    audioGainIn,       \* media element sources connected to audioGain
    micGainIn,         \* nodes connected to micGain
    audioSourceRef,    \* audioSourceRef.current: the source's number, 0 = null
    sourcesCreated,    \* number of createMediaElementSource(audio) calls made
    micAccess,         \* getUserMedia: "none", "asking", "granted" or "denied"
    volume,            \* the volume state and audioGain.gain.value, in tenths
    currentFileIndex,  \* currentFileIndex of the loading effect
    loadPhase,         \* "none", "loading" (a candidate is loading), "ready"
                       \* (canplay fired) or "failed" (every candidate failed)
    status,            \* the status state
    audioError,        \* the audioError state: "null" or the kind of message
    playerIsPlaying,   \* the isPlaying state of the component
    isStreaming,       \* the isStreaming state
    paused,            \* audio.paused
    playEventQueued,   \* a 'play' event is queued on the element
    pauseTaskQueued,   \* the task that fires 'pause' and rejects play promises is queued
    pendingPlay,       \* pending promises of audio.play()
    abortedPlay,       \* play promises the queued pause task will reject
    thenQueue,         \* .then callbacks of resolved play promises still to run
    catchQueue,        \* .catch callbacks of rejected play promises still to run
    meeting,           \* useMeeting(): "none", "noChangeMic" or "ok"
    lastChangeMic      \* argument of the last meeting.changeMic call that returned:
                       \* "none" (no call), "track" or "default"

graph == <<ctxState, resumePending, teacherGainValue, musicGainValue,
           teacherGainOut, musicGainOut, masterGainOut, streamDestination,
           loadCalls, loading, musicSource, musicGainIn, audioPlaying, isPlaying,
           teacherSource, teacherGainIn>>

playerGraph == <<audioInit, playerCtx, audioGainOut, micGainOut, audioGainIn,
                 micGainIn, audioSourceRef, sourcesCreated, micAccess, volume>>

playerVars == <<mounted, playerGraph, currentFileIndex, loadPhase, status,
                audioError, playerIsPlaying, isStreaming, paused, playEventQueued,
                pauseTaskQueued, pendingPlay, abortedPlay, thenQueue, catchQueue,
                meeting, lastChangeMic>>

vars == <<graph, result, returnedStream, disconnectCalls, playerVars>>

\* the MediaStream of a MediaStreamAudioDestinationNode
StreamOf(node) == node

\* new TeacherAudioMixer(config), the config fields drawn from configValues
Constructed(configValues) ==
    /\ ctxState \in {"suspended", "running"}
    /\ resumePending = FALSE
    /\ \E config \in [initialTeacherVolume : configValues, initialMusicVolume : configValues] :
          /\ teacherGainValue = InitialVolume(config.initialTeacherVolume, DefaultTeacherVolume)
          /\ musicGainValue = InitialVolume(config.initialMusicVolume, DefaultMusicVolume)
    /\ masterGainOut = {"destination"}
    /\ teacherGainOut = {"masterGain", "streamDestination"}
    /\ musicGainOut = {"masterGain", "streamDestination"}
    /\ streamDestination = StreamDestinationNode
    /\ loadCalls = 0
    /\ loading = {}
    /\ musicSource = 0
    /\ musicGainIn = {}
    /\ audioPlaying = {}
    /\ isPlaying = FALSE
    /\ teacherSource = 0
    /\ teacherGainIn = {}
    /\ result = "ok"
    /\ returnedStream = 0
    /\ disconnectCalls = 0

\* no MusicPlayer is mounted
NoPlayer ==
    /\ mounted = FALSE
    /\ audioInit = "none"
    /\ playerCtx = "none"
    /\ audioGainOut = {}
    /\ micGainOut = {}
    /\ audioGainIn = {}
    /\ micGainIn = {}
    /\ audioSourceRef = 0
    /\ sourcesCreated = 0
    /\ micAccess = "none"
    /\ volume = 0
    /\ currentFileIndex = 0
    /\ loadPhase = "none"
    /\ status = "none"
    /\ audioError = "null"
    /\ playerIsPlaying = FALSE
    /\ isStreaming = FALSE
    /\ paused = TRUE
    /\ playEventQueued = FALSE
    /\ pauseTaskQueued = FALSE
    /\ pendingPlay = 0
    /\ abortedPlay = 0
    /\ thenQueue = 0
    /\ catchQueue = 0
    /\ meeting = "none"
    /\ lastChangeMic = "none"

Init == Constructed(ConfigValues) /\ NoPlayer

\* the MediaStreams a caller may pass; "invalid" stands for a handle
\* createMediaStreamSource() rejects
MediaStreams == {"s1", "s2", "invalid"}

\* bookkeeping of a call other than disconnect() and getMixedStream()
Called(res) ==
    /\ result' = res
    /\ returnedStream' = 0
    /\ disconnectCalls' = 0

\* ---- loadMusic(url) ----

\* mediaSource.connect(this.musicGain): the inputs of musicGain afterwards
ConnectMusicSource(conn, r) == conn \cup {r}

\* the call up to its await: a new Audio element starts loading and the
\* caller gets a pending promise
LoadMusic ==
    /\ loadCalls < MaxLoads
    /\ loadCalls' = loadCalls + 1
    /\ loading' = loading \cup {loadCalls + 1}
    /\ Called("ok")
    /\ UNCHANGED <<ctxState, resumePending, teacherGainValue, musicGainValue,
                   teacherGainOut, musicGainOut, masterGainOut, streamDestination,
                   musicSource, musicGainIn, audioPlaying, isPlaying,
                   teacherSource, teacherGainIn, playerVars>>

\* 'loadeddata' fires for load r: the rest of the try block runs
LoadedData(r) ==
    /\ r \in loading
    /\ loading' = loading \ {r}
    /\ musicGainIn' = ConnectMusicSource(musicGainIn, r)
    /\ musicSource' = r
    /\ Called("true")
    /\ UNCHANGED <<ctxState, resumePending, teacherGainValue, musicGainValue,
                   teacherGainOut, musicGainOut, masterGainOut, streamDestination,
                   loadCalls, audioPlaying, isPlaying,
                   teacherSource, teacherGainIn, playerVars>>

LoadErrorMutant(r) ==
    /\ r \in loading
    /\ loading' = loading \ {r}
    /\ streamDestination' = streamDestination + 1
    /\ Called("false")
    /\ UNCHANGED <<ctxState, resumePending, teacherGainValue, musicGainValue,
                   teacherGainOut, musicGainOut, masterGainOut,
                   loadCalls, musicSource, musicGainIn, audioPlaying, isPlaying,
                   teacherSource, teacherGainIn, playerVars>>

\* 'error' fires for load r: the catch block runs
LoadError(r) ==
    /\ r \in loading
    /\ loading' = loading \ {r}
    /\ Called("false")
    /\ UNCHANGED <<ctxState, resumePending, teacherGainValue, musicGainValue,
                   teacherGainOut, musicGainOut, masterGainOut, streamDestination,
                   loadCalls, musicSource, musicGainIn, audioPlaying, isPlaying,
                   teacherSource, teacherGainIn, playerVars>>

\* ---- setTeacherStream(mediaStream) ----

DisconnectPriorMutant(source, conn) == conn
\* if (source) source.disconnect(): the inputs of the gain node afterwards
DisconnectPrior(source, conn) == IF source # 0 THEN conn \ {source} ELSE conn

SetTeacherStream(mediaStream) ==
    LET detached == DisconnectPrior(teacherSource, teacherGainIn)
        created == teacherSource + 1
    IN  /\ IF mediaStream = "invalid"
           THEN /\ teacherGainIn' = detached
                /\ UNCHANGED teacherSource
                /\ Called("TypeError")
           ELSE /\ teacherSource < MaxTeacherSources
                /\ teacherSource' = created
                /\ teacherGainIn' = detached \cup {created}
                /\ Called("ok")
        /\ UNCHANGED <<ctxState, resumePending, teacherGainValue, musicGainValue,
                       teacherGainOut, musicGainOut, masterGainOut, streamDestination,
                       loadCalls, loading, musicSource, musicGainIn, audioPlaying,
                       isPlaying, playerVars>>

\* ---- startMusic() / stopMusic() ----

StartMusic ==
    /\ IF musicSource # 0 /\ ~isPlaying
       THEN /\ resumePending' = (resumePending \/ ctxState = "suspended")
            /\ audioPlaying' = audioPlaying \cup {musicSource}
            /\ isPlaying' = TRUE
       ELSE UNCHANGED <<resumePending, audioPlaying, isPlaying>>
    /\ Called("ok")
    /\ UNCHANGED <<ctxState, teacherGainValue, musicGainValue,
                   teacherGainOut, musicGainOut, masterGainOut, streamDestination,
                   loadCalls, loading, musicSource, musicGainIn,
                   teacherSource, teacherGainIn, playerVars>>

\* the promise of audioContext.resume() settles: the context is running
Resumed ==
    /\ resumePending
    /\ resumePending' = FALSE
    /\ ctxState' = "running"
    /\ Called("ok")
    /\ UNCHANGED <<teacherGainValue, musicGainValue,
                   teacherGainOut, musicGainOut, masterGainOut, streamDestination,
                   loadCalls, loading, musicSource, musicGainIn, audioPlaying, isPlaying,
                   teacherSource, teacherGainIn, playerVars>>

StopMusic ==
    /\ IF musicSource # 0 /\ isPlaying
       THEN /\ audioPlaying' = audioPlaying \ {musicSource}
            /\ isPlaying' = FALSE
       ELSE UNCHANGED <<audioPlaying, isPlaying>>
    /\ Called("ok")
    /\ UNCHANGED <<ctxState, resumePending, teacherGainValue, musicGainValue,
                   teacherGainOut, musicGainOut, masterGainOut, streamDestination,
                   loadCalls, loading, musicSource, musicGainIn,
                   teacherSource, teacherGainIn, playerVars>>

\* ---- setMusicVolume(value) / setTeacherVolume(value) ----

\* gain.value = x: the AudioParam setter throws TypeError on NaN
SetMusicVolume(value) ==
    LET x == Clamp(value)
    IN  /\ IF x.kind = "nan"
           THEN /\ UNCHANGED musicGainValue
                /\ Called("TypeError")
           ELSE /\ musicGainValue' = x.v
                /\ Called("set")
        /\ UNCHANGED <<ctxState, resumePending, teacherGainValue,
                       teacherGainOut, musicGainOut, masterGainOut, streamDestination,
                       loadCalls, loading, musicSource, musicGainIn, audioPlaying,
                       isPlaying, teacherSource, teacherGainIn, playerVars>>

SetTeacherVolume(value) ==
    LET x == Clamp(value)
    IN  /\ IF x.kind = "nan"
           THEN /\ UNCHANGED teacherGainValue
                /\ Called("TypeError")
           ELSE /\ teacherGainValue' = x.v
                /\ Called("set")
        /\ UNCHANGED <<ctxState, resumePending, musicGainValue,
                       teacherGainOut, musicGainOut, masterGainOut, streamDestination,
                       loadCalls, loading, musicSource, musicGainIn, audioPlaying,
                       isPlaying, teacherSource, teacherGainIn, playerVars>>

\* ---- getMixedStream() ----

GetMixedStream ==
    /\ returnedStream' = StreamOf(streamDestination)
    /\ result' = "ok"
    /\ disconnectCalls' = 0
    /\ UNCHANGED <<graph, playerVars>>

\* ---- disconnect() ----

\* node.disconnect(): the node's outputs afterwards
DisconnectNode(out) == {}

\* true once disconnect() has run: nothing reconnects a gain node
Closed == teacherGainOut = {} /\ musicGainOut = {} /\ masterGainOut = {}

DisconnectMutant ==
    /\ disconnectCalls < MaxDisconnects
    /\ musicGainIn' = DisconnectPrior(musicSource, musicGainIn)
    /\ teacherGainIn' = DisconnectPrior(teacherSource, teacherGainIn)
    /\ teacherGainOut' = DisconnectNode(teacherGainOut)
    /\ musicGainOut' = DisconnectNode(musicGainOut)
    /\ masterGainOut' = DisconnectNode(masterGainOut)
    /\ result' = IF Closed THEN "InvalidStateError" ELSE "ok"
    /\ returnedStream' = 0
    /\ disconnectCalls' = disconnectCalls + 1
    /\ UNCHANGED <<ctxState, resumePending, teacherGainValue, musicGainValue,
                   streamDestination, loadCalls, loading, musicSource, audioPlaying,
                   isPlaying, teacherSource, playerVars>>

Disconnect ==
    /\ disconnectCalls < MaxDisconnects
    /\ musicGainIn' = DisconnectPrior(musicSource, musicGainIn)
    /\ teacherGainIn' = DisconnectPrior(teacherSource, teacherGainIn)
    /\ teacherGainOut' = DisconnectNode(teacherGainOut)
    /\ musicGainOut' = DisconnectNode(musicGainOut)
    /\ masterGainOut' = DisconnectNode(masterGainOut)
    /\ result' = "ok"
    /\ returnedStream' = 0
    /\ disconnectCalls' = disconnectCalls + 1
    /\ UNCHANGED <<ctxState, resumePending, teacherGainValue, musicGainValue,
                   streamDestination, loadCalls, loading, musicSource, audioPlaying,
                   isPlaying, teacherSource, playerVars>>

Next ==
    \/ LoadMusic
    \/ \E r \in loading : LoadedData(r)
    \/ \E r \in loading : LoadError(r)
    \/ \E mediaStream \in MediaStreams : SetTeacherStream(mediaStream)
    \/ StartMusic
    \/ Resumed
    \/ StopMusic
    \/ \E value \in VolumeArgs : SetMusicVolume(value)
    \/ \E value \in VolumeArgs : SetTeacherVolume(value)
    \/ GetMixedStream
    \/ Disconnect

Spec == Init /\ [][Next]_vars

\* The volume setters alone, on every volume of AllVolumes, before and after
\* disconnect().
InitVolume == Constructed(AllNumbers \cup {Undefined}) /\ NoPlayer

NextVolume ==
    \/ \E value \in AllNumbers \cup {NaN} : SetMusicVolume(value)
    \/ \E value \in AllNumbers \cup {NaN} : SetTeacherVolume(value)
    \/ Disconnect

SpecVolume == InitVolume /\ [][NextVolume]_vars

\* ==== MusicPlayer ====

mixerVars == <<graph, result, returnedStream, disconnectCalls>>

\* no TeacherAudioMixer has been constructed
NoMixer ==
    /\ ctxState = "none"
    /\ resumePending = FALSE
    /\ teacherGainValue = 0
    /\ musicGainValue = 0
    /\ teacherGainOut = {}
    /\ musicGainOut = {}
    /\ masterGainOut = {}
    /\ streamDestination = 0
    /\ loadCalls = 0
    /\ loading = {}
    /\ musicSource = 0
    /\ musicGainIn = {}
    /\ audioPlaying = {}
    /\ isPlaying = FALSE
    /\ teacherSource = 0
    /\ teacherGainIn = {}
    /\ result = "ok"
    /\ returnedStream = 0
    /\ disconnectCalls = 0

\* tryNextFile() finds no candidate left
TryNextFileExhaustedMutant == currentFileIndex > AudioFilesLength

TryNextFileExhausted == currentFileIndex >= AudioFilesLength

\* The component after mount: both effects have run. The loading effect has
\* started the first candidate. The Web Audio effect has either built the
\* graph and asked for the microphone, or thrown at new AudioContext().
Mounted ==
    /\ mounted = TRUE
    /\ meeting \in {"none", "noChangeMic", "ok"}
    /\ currentFileIndex = 1
    /\ loadPhase = "loading"
    /\ volume = InitialPlayerVolume
    /\ \/ /\ audioInit = "ok"
          /\ playerCtx \in {"suspended", "running"}
          /\ audioGainOut = {"streamDestination", "destination"}
          /\ micGainOut = {"streamDestination"}
          /\ micAccess = "asking"
          /\ status = "Initializing..."
          /\ audioError = "null"
       \/ /\ audioInit = "failed"
          /\ playerCtx = "none"
          /\ audioGainOut = {}
          /\ micGainOut = {}
          /\ micAccess = "none"
          /\ status = "Error initializing audio"
          /\ audioError = "init"
    /\ audioGainIn = {}
    /\ micGainIn = {}
    /\ audioSourceRef = 0
    /\ sourcesCreated = 0
    /\ playerIsPlaying = FALSE
    /\ isStreaming = FALSE
    /\ paused = TRUE
    /\ playEventQueued = FALSE
    /\ pauseTaskQueued = FALSE
    /\ pendingPlay = 0
    /\ abortedPlay = 0
    /\ thenQueue = 0
    /\ catchQueue = 0
    /\ lastChangeMic = "none"

InitPlayer == NoMixer /\ Mounted

\* no promise callback is waiting to run: the next task may start
Idle == mounted /\ thenQueue = 0 /\ catchQueue = 0

\* what never changes while the component is mounted
playerFixed == <<mounted, audioInit, audioGainOut, micGainOut, meeting>>

\* if (context.state === 'suspended') context.resume()
ResumeContext(ctx) == IF ctx = "suspended" THEN "resuming" ELSE ctx

\* connectAudioElement(), called with the context in state ctx
ConnectAudioElementMutant(ctx) ==
    IF audioInit = "ok"
    THEN /\ playerCtx' = ResumeContext(ctx)
         /\ sourcesCreated' = sourcesCreated + 1
         /\ audioSourceRef' = sourcesCreated + 1
         /\ audioGainIn' = audioGainIn \cup {sourcesCreated + 1}
    ELSE /\ playerCtx' = ctx
         /\ UNCHANGED <<sourcesCreated, audioSourceRef, audioGainIn>>

ConnectAudioElement(ctx) ==
    IF audioInit = "ok" /\ audioSourceRef = 0
    THEN /\ playerCtx' = ResumeContext(ctx)
         /\ sourcesCreated' = sourcesCreated + 1
         /\ audioSourceRef' = sourcesCreated + 1
         /\ audioGainIn' = audioGainIn \cup {sourcesCreated + 1}
    ELSE /\ playerCtx' = ctx
         /\ UNCHANGED <<sourcesCreated, audioSourceRef, audioGainIn>>

\* startStreaming() reaches meeting.changeMic(audioTrack) and it returns;
\* throws: the changeMic call throws
StartStreamingSucceedsMutant(throws) == audioInit = "ok" /\ meeting = "ok"

StartStreamingSucceeds(throws) == audioInit = "ok" /\ meeting = "ok" /\ ~throws

\* the status startStreaming() leaves; playing is the isPlaying its closure holds
StartStreamingStatus(playing, throws) ==
    IF audioInit # "ok" THEN "Error starting stream"
    ELSE IF meeting # "ok" THEN "Meeting API not available"
    ELSE IF throws THEN "Error starting stream"
    ELSE IF playing THEN "Playing and streaming"
    ELSE "Ready (streaming on)"

\* stopStreaming() reaches meeting.changeMic() and it returns
StopStreamingSucceedsMutant(throws) == FALSE

StopStreamingSucceeds(throws) == meeting = "ok" /\ ~throws

StopStreamingStatus(playing, throws) ==
    IF meeting # "ok" THEN "Meeting API not available"
    ELSE IF throws THEN "Error stopping stream"
    ELSE IF playing THEN "Playing (local only)"
    ELSE "Ready"

\* getUserMedia() resolves: the microphone source is connected to micGain
MicGrantedMutant ==
    /\ Idle
    /\ micAccess = "asking"
    /\ micAccess' = "granted"
    /\ micGainIn' = {"micSource"}
    /\ micGainOut' = micGainOut \cup {"destination"}
    /\ UNCHANGED <<mixerVars, mounted, audioInit, audioGainOut, meeting,
                   playerCtx, audioGainIn, audioSourceRef,
                   sourcesCreated, volume, currentFileIndex, loadPhase, status,
                   audioError, playerIsPlaying, isStreaming, paused,
                   playEventQueued, pauseTaskQueued, pendingPlay, abortedPlay,
                   thenQueue, catchQueue, lastChangeMic>>

MicGranted ==
    /\ Idle
    /\ micAccess = "asking"
    /\ micAccess' = "granted"
    /\ micGainIn' = {"micSource"}
    /\ UNCHANGED <<mixerVars, playerFixed, playerCtx, audioGainIn, audioSourceRef,
                   sourcesCreated, volume, currentFileIndex, loadPhase, status,
                   audioError, playerIsPlaying, isStreaming, paused,
                   playEventQueued, pauseTaskQueued, pendingPlay, abortedPlay,
                   thenQueue, catchQueue, lastChangeMic>>

\* getUserMedia() rejects
MicDenied ==
    /\ Idle
    /\ micAccess = "asking"
    /\ micAccess' = "denied"
    /\ status' = "Microphone access error"
    /\ UNCHANGED <<mixerVars, playerFixed, playerCtx, audioGainIn, micGainIn,
                   audioSourceRef, sourcesCreated, volume, currentFileIndex,
                   loadPhase, audioError, playerIsPlaying, isStreaming, paused,
                   playEventQueued, pauseTaskQueued, pendingPlay, abortedPlay,
                   thenQueue, catchQueue, lastChangeMic>>

\* the 'canplay' event of the candidate being loaded: handleCanPlay
HandleCanPlay ==
    /\ Idle
    /\ loadPhase = "loading"
    /\ loadPhase' = "ready"
    /\ status' = "Ready to play"
    /\ audioError' = "null"
    /\ UNCHANGED <<mixerVars, playerFixed, playerGraph, currentFileIndex,
                   playerIsPlaying, isStreaming, paused, playEventQueued,
                   pauseTaskQueued, pendingPlay, abortedPlay, thenQueue,
                   catchQueue, lastChangeMic>>

\* the 'error' event of the candidate being loaded: handleAudioError (onError),
\* then handleError -> tryNextFile; the element rejects its pending play()
\* promises. Assigning the next src reloads the element: it is paused, its
\* queued events are dropped and the promises a pause() took are rejected now.
HandleError ==
    /\ Idle
    /\ loadPhase = "loading"
    /\ playerIsPlaying' = FALSE
    /\ IF TryNextFileExhausted
       THEN /\ audioError' = "load"
            /\ status' = "Error: Audio file not found"
            /\ loadPhase' = "failed"
            /\ catchQueue' = pendingPlay
            /\ UNCHANGED <<currentFileIndex, paused, playEventQueued,
                           pauseTaskQueued, abortedPlay>>
       ELSE /\ currentFileIndex' = currentFileIndex + 1
            /\ paused' = TRUE
            /\ playEventQueued' = FALSE
            /\ pauseTaskQueued' = FALSE
            /\ catchQueue' = pendingPlay + abortedPlay
            /\ abortedPlay' = 0
            /\ status' = IF playerIsPlaying THEN "Error: media" ELSE status
            /\ UNCHANGED <<audioError, loadPhase>>
    /\ pendingPlay' = 0
    /\ UNCHANGED <<mixerVars, playerFixed, playerGraph, isStreaming, thenQueue,
                   lastChangeMic>>

\* togglePlay(); throws: the changeMic call of stopStreaming() throws
TogglePlay(throws) ==
    /\ Idle
    /\ IF audioError # "null"
       THEN /\ status' = "Cannot play"
            /\ UNCHANGED <<playerGraph, playerIsPlaying, isStreaming, paused,
                           playEventQueued, pauseTaskQueued, pendingPlay,
                           abortedPlay, catchQueue, lastChangeMic>>
       ELSE IF ~playerIsPlaying
       THEN /\ ConnectAudioElement(ResumeContext(playerCtx))
            /\ IF loadPhase = "failed"
               THEN /\ catchQueue' = 1
                    /\ UNCHANGED <<pendingPlay, paused, playEventQueued>>
               ELSE /\ pendingPlay + abortedPlay < MaxPendingPlay
                    /\ pendingPlay' = pendingPlay + 1
                    /\ paused' = FALSE
                    /\ playEventQueued' = (playEventQueued \/ paused)
                    /\ UNCHANGED catchQueue
            /\ UNCHANGED <<micGainIn, micAccess, volume, status,
                           playerIsPlaying, isStreaming, pauseTaskQueued,
                           abortedPlay, lastChangeMic>>
       ELSE /\ playerCtx' = ResumeContext(playerCtx)
            /\ IF paused
               THEN UNCHANGED <<paused, pauseTaskQueued, abortedPlay, pendingPlay>>
               ELSE /\ paused' = TRUE
                    /\ pauseTaskQueued' = TRUE
                    /\ abortedPlay' = abortedPlay + pendingPlay
                    /\ pendingPlay' = 0
            /\ IF isStreaming /\ meeting = "ok" /\ StopStreamingSucceeds(throws)
               THEN isStreaming' = FALSE /\ lastChangeMic' = "default"
               ELSE UNCHANGED <<isStreaming, lastChangeMic>>
            /\ playerIsPlaying' = FALSE
            /\ status' = "Paused"
            /\ UNCHANGED <<audioGainIn, micGainIn, audioSourceRef,
                           sourcesCreated, micAccess, volume, playEventQueued,
                           catchQueue>>
    /\ UNCHANGED <<mixerVars, playerFixed, currentFileIndex, loadPhase,
                   audioError, thenQueue>>

\* the 'play' event: handleAudioPlay
HandleAudioPlay ==
    /\ Idle
    /\ playEventQueued
    /\ playEventQueued' = FALSE
    /\ playerIsPlaying' = TRUE
    /\ status' = IF isStreaming THEN "Playing and streaming" ELSE "Playing"
    /\ UNCHANGED <<mixerVars, playerFixed, playerGraph, currentFileIndex,
                   loadPhase, audioError, isStreaming, paused, pauseTaskQueued,
                   pendingPlay, abortedPlay, thenQueue, catchQueue,
                   lastChangeMic>>

\* playback starts: the element resolves its pending play() promises
PlayResolved ==
    /\ Idle
    /\ pendingPlay > 0
    /\ ~paused
    /\ ~playEventQueued
    /\ loadPhase = "ready"
    /\ thenQueue' = pendingPlay
    /\ pendingPlay' = 0
    /\ UNCHANGED <<mixerVars, playerFixed, playerGraph, currentFileIndex,
                   loadPhase, status, audioError, playerIsPlaying, isStreaming,
                   paused, playEventQueued, pauseTaskQueued, abortedPlay,
                   catchQueue, lastChangeMic>>

\* a fulfilled play() promise runs its .then callback, whose closure holds
\* isPlaying = false; throws: the changeMic call of startStreaming() throws
ThenCallback(throws) ==
    /\ mounted
    /\ thenQueue > 0
    /\ thenQueue' = thenQueue - 1
    /\ IF meeting = "ok"
       THEN /\ ConnectAudioElement(playerCtx)
            /\ IF StartStreamingSucceeds(throws)
               THEN isStreaming' = TRUE /\ lastChangeMic' = "mixed"
               ELSE UNCHANGED <<isStreaming, lastChangeMic>>
       ELSE UNCHANGED <<playerCtx, sourcesCreated, audioSourceRef, audioGainIn,
                        isStreaming, lastChangeMic>>
    /\ playerIsPlaying' = TRUE
    /\ status' = "Playing and streaming"
    /\ UNCHANGED <<mixerVars, playerFixed, micGainIn, micAccess, volume,
                   currentFileIndex, loadPhase, audioError, paused,
                   playEventQueued, pauseTaskQueued, pendingPlay, abortedPlay,
                   catchQueue>>

\* a rejected play() promise runs its .catch callback
CatchCallback ==
    /\ mounted
    /\ thenQueue = 0
    /\ catchQueue > 0
    /\ catchQueue' = catchQueue - 1
    /\ status' = "Error playing audio"
    /\ audioError' = "play"
    /\ UNCHANGED <<mixerVars, playerFixed, playerGraph, currentFileIndex,
                   loadPhase, playerIsPlaying, isStreaming, paused,
                   playEventQueued, pauseTaskQueued, pendingPlay, abortedPlay,
                   thenQueue, lastChangeMic>>

\* the task audio.pause() queued: the 'pause' event runs handleAudioPause, then
\* the play() promises that pause() took are rejected
HandleAudioPause ==
    /\ Idle
    /\ pauseTaskQueued
    /\ ~playEventQueued
    /\ pauseTaskQueued' = FALSE
    /\ playerIsPlaying' = FALSE
    /\ status' = IF isStreaming THEN "Paused (streaming on)" ELSE "Paused"
    /\ catchQueue' = abortedPlay
    /\ abortedPlay' = 0
    /\ UNCHANGED <<mixerVars, playerFixed, playerGraph, currentFileIndex,
                   loadPhase, audioError, isStreaming, paused, playEventQueued,
                   pendingPlay, thenQueue, lastChangeMic>>

\* toggleStreaming(); throws: the changeMic call it reaches throws
ToggleStreaming(throws) ==
    /\ Idle
    /\ IF meeting = "none"
       THEN /\ status' = "No meeting available"
            /\ UNCHANGED <<playerCtx, sourcesCreated, audioSourceRef,
                           audioGainIn, isStreaming, lastChangeMic>>
       ELSE IF ~isStreaming
       THEN /\ ConnectAudioElement(playerCtx)
            /\ status' = StartStreamingStatus(playerIsPlaying, throws)
            /\ IF StartStreamingSucceeds(throws)
               THEN isStreaming' = TRUE /\ lastChangeMic' = "mixed"
               ELSE UNCHANGED <<isStreaming, lastChangeMic>>
       ELSE /\ status' = StopStreamingStatus(playerIsPlaying, throws)
            /\ IF StopStreamingSucceeds(throws)
               THEN isStreaming' = FALSE /\ lastChangeMic' = "default"
               ELSE UNCHANGED <<isStreaming, lastChangeMic>>
            /\ UNCHANGED <<playerCtx, sourcesCreated, audioSourceRef,
                           audioGainIn>>
    /\ UNCHANGED <<mixerVars, playerFixed, micGainIn, micAccess, volume,
                   currentFileIndex, loadPhase, audioError, playerIsPlaying,
                   paused, playEventQueued, pauseTaskQueued, pendingPlay,
                   abortedPlay, thenQueue, catchQueue>>

PlayerVolumes == {0, InitialPlayerVolume, One}

\* handleVolumeChange with the slider at newVolume
HandleVolumeChange(newVolume) ==
    /\ Idle
    /\ volume' = newVolume
    /\ UNCHANGED <<mixerVars, playerFixed, playerCtx, audioGainIn, micGainIn,
                   audioSourceRef, sourcesCreated, micAccess, currentFileIndex,
                   loadPhase, status, audioError, playerIsPlaying, isStreaming,
                   paused, playEventQueued, pauseTaskQueued, pendingPlay,
                   abortedPlay, thenQueue, catchQueue, lastChangeMic>>

\* the promise of audioContext.resume() settles
PlayerResumed ==
    /\ Idle
    /\ playerCtx = "resuming"
    /\ playerCtx' = "running"
    /\ UNCHANGED <<mixerVars, playerFixed, audioGainIn, micGainIn,
                   audioSourceRef, sourcesCreated, micAccess, volume,
                   currentFileIndex, loadPhase, status, audioError,
                   playerIsPlaying, isStreaming, paused, playEventQueued,
                   pauseTaskQueued, pendingPlay, abortedPlay, thenQueue,
                   catchQueue, lastChangeMic>>

NextPlayer ==
    \/ MicGranted
    \/ MicDenied
    \/ HandleCanPlay
    \/ HandleError
    \/ \E throws \in BOOLEAN : TogglePlay(throws)
    \/ HandleAudioPlay
    \/ PlayResolved
    \/ \E throws \in BOOLEAN : ThenCallback(throws)
    \/ CatchCallback
    \/ HandleAudioPause
    \/ \E throws \in BOOLEAN : ToggleStreaming(throws)
    \/ \E newVolume \in PlayerVolumes : HandleVolumeChange(newVolume)
    \/ PlayerResumed

SpecPlayer == InitPlayer /\ [][NextPlayer]_vars

\* Every load attempt eventually fires 'canplay' or 'error', and a settled
\* play() promise runs its callback before the next task.
SpecPlayerFair ==
    /\ SpecPlayer
    /\ WF_vars(HandleCanPlay \/ HandleError)
    /\ WF_vars(CatchCallback)

\* Either graph of the repository: a behaviour of a constructed
\* TeacherAudioMixer or a behaviour of a mounted MusicPlayer.
InitBoth == Init \/ InitPlayer

NextBoth ==
    \/ ~mounted /\ LoadMusic
    \/ ~mounted /\ \E r \in loading : LoadedData(r)
    \/ ~mounted /\ \E r \in loading : LoadError(r)
    \/ ~mounted /\ \E mediaStream \in MediaStreams : SetTeacherStream(mediaStream)
    \/ ~mounted /\ StartMusic
    \/ ~mounted /\ Resumed
    \/ ~mounted /\ StopMusic
    \/ ~mounted /\ \E value \in VolumeArgs : SetMusicVolume(value)
    \/ ~mounted /\ \E value \in VolumeArgs : SetTeacherVolume(value)
    \/ ~mounted /\ GetMixedStream
    \/ ~mounted /\ Disconnect
    \/ NextPlayer

SpecBoth == InitBoth /\ [][NextBoth]_vars

\* ---- the properties ----

\* a call on the graph other than disconnect()
OtherCall ==
    \/ LoadMusic
    \/ \E mediaStream \in MediaStreams : SetTeacherStream(mediaStream)
    \/ StartMusic
    \/ StopMusic
    \/ \E value \in VolumeArgs : SetMusicVolume(value)
    \/ \E value \in VolumeArgs : SetTeacherVolume(value)
    \/ GetMixedStream

\* min(1, max(0, v)) on the reals, in tenths
ClampedTo01(v) == IF v <= 0 THEN 0 ELSE IF v >= One THEN One ELSE v

\* C1: at most one music source is ever connected to the music gain stage,
\* and when a loadMusic call has just completed successfully the source it
\* bound is the only one connected.
C1_OneMusicConnection ==
    /\ Cardinality(musicGainIn) <= 1
    /\ result = "true" => musicGainIn = {musicSource}

\* C2: a load that resolves after a later loadMusic call was issued, or
\* after disconnect(), connects nothing to the music gain stage and does not
\* become the bound music source.
C2_StaleLoadDiscarded ==
    [][\A r \in loading :
          (r \notin loading' /\ (r < loadCalls \/ Closed))
              => (musicGainIn' = musicGainIn /\ musicSource' = musicSource)]_vars

\* C3: in every reachable state, the initial one included, both gain values
\* lie in [0, 1].
C3_GainsInRange ==
    /\ teacherGainValue \in 0 .. One
    /\ musicGainValue \in 0 .. One

\* C4: for every number v, setMusicVolume(v) and setTeacherVolume(v) do not
\* fail and leave the slot's gain equal to min(1, max(0, v)): 0 for v <= 0,
\* 1 for v >= 1, v in between.
C4_SetGainClamps ==
    [][\A value \in AllNumbers :
          /\ SetMusicVolume(value)
                => (musicGainValue' = ClampedTo01(value.v) /\ result' = "set")
          /\ SetTeacherVolume(value)
                => (teacherGainValue' = ClampedTo01(value.v) /\ result' = "set")]_vars

\* C4 witness: the last call wrote a gain, and the gains sit at the two ends
\* of the range, as after setMusicVolume(1.5) and setTeacherVolume(-0.2).
C4_Witness ==
    /\ result = "set"
    /\ musicGainValue = One
    /\ teacherGainValue = 0

\* C5: at most one microphone source is connected to the teacher gain stage
\* in every reachable state, and it is the one created by the latest
\* setTeacherStream call.
C5_OneTeacherConnection ==
    /\ Cardinality(teacherGainIn) <= 1
    /\ \A s \in teacherGainIn : s = teacherSource

\* C5 witness: setTeacherStream was called twice and the second source is
\* the one connected.
C5_Witness ==
    /\ teacherSource = 2
    /\ teacherGainIn = {2}
    /\ ~Closed

\* C6: whenever a play command is issued to a music source, the audio context
\* is already in the running state.
C6_RunningBeforePlay ==
    [][(audioPlaying' # audioPlaying /\ audioPlaying \subseteq audioPlaying')
          => ctxState = "running"]_vars

\* C7: once a load has failed, the call has reported false, no music source
\* is bound and nothing is connected to the music gain stage.
C7_FailedLoadLeavesSlotAbsent ==
    result = "false" => (musicSource = 0 /\ musicGainIn = {})

\* C8: after disconnect(), every other call fails with GraphClosedError and
\* changes no graph state.
C8_ClosedGraphRejectsCalls ==
    [][(Closed /\ OtherCall)
          => (result' = "GraphClosedError" /\ graph' = graph)]_vars

\* C9: a disconnect() call that directly follows a disconnect() call does not
\* fail and leaves the graph as the first call left it.
C9_DisconnectIdempotent ==
    [][(disconnectCalls >= 1 /\ disconnectCalls' = disconnectCalls + 1)
          => (result' = "ok" /\ graph' = graph)]_vars

\* C9 witness: disconnect() has run twice in a row on a graph with both a
\* music source and a teacher source bound.
C9_Witness ==
    /\ disconnectCalls = 2
    /\ musicSource # 0
    /\ teacherSource # 0

\* C10: the merged-output destination is never replaced, and whenever
\* getMixedStream() has returned, it returned the stream of the destination
\* created by the constructor.
C10_SameMixedStream ==
    /\ streamDestination = StreamDestinationNode
    /\ returnedStream # 0 => returnedStream = StreamOf(StreamDestinationNode)

\* C10 witness: getMixedStream() has returned after a loadMusic call whose
\* load failed.
C10_Witness ==
    /\ returnedStream # 0
    /\ loadCalls = 1
    /\ loading = {}
    /\ musicSource = 0

\* C11: startMusic() while the bound music source is playing, and stopMusic()
\* while it is not playing or no source is bound, leave the graph unchanged.
C11_StartStopNoOp ==
    [][/\ (StartMusic /\ musicSource \in audioPlaying) => graph' = graph
       /\ (StopMusic /\ musicSource \notin audioPlaying) => graph' = graph]_vars

\* C12 (its connections): once disconnect() has run and no other call or
\* callback has followed, no source is connected to a gain stage and no gain
\* stage is connected to an output.
C12_NothingConnectedAfterDisconnect ==
    disconnectCalls >= 1 => (musicGainIn = {} /\ teacherGainIn = {} /\ Closed)

\* C16: isPlaying is true exactly when the Audio element of the bound music
\* source is playing.
C16_IsPlayingMatchesSource ==
    isPlaying <=> (musicSource # 0 /\ musicSource \in audioPlaying)

\* C19: createMediaElementSource is called at most once for the audio element,
\* and at most one music source is connected to the music gain node.
C19_OneElementSource ==
    sourcesCreated <= 1 /\ Cardinality(audioGainIn) <= 1

\* connectAudioElement() has been called again after the source was created
C19_Witness ==
    /\ sourcesCreated = 1
    /\ audioGainIn = {1}
    /\ isStreaming
    /\ playerIsPlaying
    /\ lastChangeMic = "mixed"

\* a gain stage with exactly two outputs: the local monitoring output (directly,
\* or through masterGain) and the merged-output destination
LocalAndMerged(out) ==
    \/ out = {"masterGain", "streamDestination"}
    \/ out = {"destination", "streamDestination"}

PlayToggle == \E throws \in BOOLEAN : TogglePlay(throws) \/ ThenCallback(throws)

StreamingToggle == \E throws \in BOOLEAN : ToggleStreaming(throws)

LoaderDone == loadPhase \in {"ready", "failed"}

\* C15: the loader tries the candidates in list order, each at most once, and
\* moves on only when the current one raised an error; a candidate that loads
\* sets status "Ready to play" and audioError null and no later candidate is
\* tried; when all have failed audioError is set with status "Error: Audio file
\* not found"; the two outcomes exclude each other and one is eventually reached.
C15_LoaderOrderAndOutcome ==
    /\ [][/\ currentFileIndex' # currentFileIndex =>
                /\ HandleError
                /\ loadPhase = "loading"
                /\ currentFileIndex' = currentFileIndex + 1
                /\ currentFileIndex' <= AudioFilesLength
          /\ HandleCanPlay =>
                (status' = "Ready to play" /\ audioError' = "null" /\ loadPhase' = "ready")
          /\ (HandleError /\ loadPhase' = "failed") =>
                /\ currentFileIndex = AudioFilesLength
                /\ audioError' = "load"
                /\ status' = "Error: Audio file not found"
          /\ loadPhase = "ready" =>
                (loadPhase' = "ready" /\ currentFileIndex' = currentFileIndex)
          /\ loadPhase = "failed" =>
                (loadPhase' = "failed" /\ audioError' # "null")]_vars
    /\ <>LoaderDone

\* the third candidate loaded after the first two failed
C15_Witness ==
    /\ loadPhase = "ready"
    /\ currentFileIndex = 3
    /\ status = "Ready to play"
    /\ audioError = "null"

\* C17: isStreaming is true exactly when the last meeting.changeMic call that
\* returned passed the mixed track (false after a reset to the default
\* microphone or with no call made), and a startStreaming or stopStreaming
\* whose changeMic throws or is missing leaves isStreaming unchanged.
C17_StreamingMatchesChangeMic ==
    /\ [](isStreaming <=> lastChangeMic = "mixed")
    /\ [][(\/ ToggleStreaming(TRUE)
           \/ TogglePlay(TRUE)
           \/ ThenCallback(TRUE)
           \/ meeting # "ok") => UNCHANGED <<isStreaming, lastChangeMic>>]_vars

\* streaming was switched on by the play() callback and off again by
\* toggleStreaming() while the music plays
C17_Witness ==
    /\ ~isStreaming
    /\ lastChangeMic = "default"
    /\ playerIsPlaying
    /\ status = "Playing (local only)"

\* C18: once the audio file has loaded audioError stays null, whatever the
\* interleaving of Play/Pause clicks, play/pause events and the settlement of
\* pending play() promises.
C18_PauseNeverDisablesPlay ==
    loadPhase = "ready" => audioError = "null"

====
